---- MODULE Spec2Model ----
(***************************************************************************)
(* Model of src/index.js, the LIDL product stock CLI: the menu loop, the   *)
(* product-availability flow (variant resolver, postal-code prompt, store  *)
(* cache, stock query) and the store-directory refresh.                    *)
(*                                                                         *)
(* Strings the code inspects character by character (URL, menu answers,    *)
(* postal codes) are sequences of one-character strings.  JavaScript       *)
(* null/undefined of a string-valued field is the empty sequence, which is *)
(* falsy exactly like the values it stands for.                            *)
(***************************************************************************)
EXTENDS Integers, Sequences, FiniteSets, TLC

\* ------------------------------------------------------------------ bounds
MaxUrlLen == 2        \* longest product URL typed at the prompt
MaxVariants == 1      \* longest variants list the page exposes
MaxChoiceLen == 1     \* longest answer to the variant prompt
MaxPostcodeLen == 5   \* longest answer to the postcode prompt
MaxStores == 1        \* longest store directory (menu flow)
MaxFlowResp == 1      \* longest stock response (menu flow)
MaxResp == 3          \* longest stock response (stock resolver alone)

SeqsUpTo(S, n) == UNION {[1..k -> S] : k \in 0..n}

\* ------------------------------------------------------------- input sets
Digits == {"0", "1", "2", "3", "4", "5", "6", "7", "8", "9"}

UrlAlphabet == {"p", "1", "/"}
Urls == SeqsUpTo(UrlAlphabet, MaxUrlLen)

ChoiceAlphabet == {"0", "1", "2", "a"}
ChoiceInputs == SeqsUpTo(ChoiceAlphabet, MaxChoiceLen)

PostcodeAlphabet == {"1", "a"}
PostcodeInputs == SeqsUpTo(PostcodeAlphabet, MaxPostcodeLen)

MenuChoices == {"1", "2", "3", ""}

\* a variant carries erpNumber and/or articleId; <<>> is a missing field
VariantUniverse ==
    { [erpNumber |-> <<"7">>, articleId |-> <<>>],
      [erpNumber |-> <<>>, articleId |-> <<"8">>] }
VariantLists == SeqsUpTo(VariantUniverse, MaxVariants)

\* fullTitle read from the page: "" is the `|| null` result
Titles == {"", "T"}

StoreUniverse ==
    { [id |-> "A", postalCode |-> <<"1", "1", "1", "1">>],
      [id |-> "B", postalCode |-> <<"2", "1", "1", "1", "1">>],
      [id |-> "C", postalCode |-> <<"2", "2", "2", "2">>] }
DirectoryLists == SeqsUpTo(StoreUniverse, MaxStores)
\* active lists for the stock resolver alone: every ordering of every
\* subset of the universe (store identifiers are unique in a directory)
ActiveLists ==
    {l \in SeqsUpTo(StoreUniverse, Cardinality(StoreUniverse)) :
        \A i, j \in 1..Len(l) : i # j => l[i] # l[j]}

\* "undefined" stands for an entry without storeAvailabilityIndicator
Statuses == {"AVAILABLE", "LOW_STOCK", "UNKNOWN", "NOT_AVAILABLE", "undefined"}
ResponseStoreIds == {"A", "B", "Z"}
StockEntries == [storeId : ResponseStoreIds, storeAvailabilityIndicator : Statuses]

\* the parsed body of the stock response: an array, or something else
ArrayBody(entries) == [isArray |-> TRUE, entries |-> entries]
NonArrayBody == [isArray |-> FALSE, entries |-> <<>>]
NoBody == ArrayBody(<<>>)
FlowResponses == {ArrayBody(e) : e \in SeqsUpTo(StockEntries, MaxFlowResp)} \cup {NonArrayBody}
StockResponses == {ArrayBody(e) : e \in SeqsUpTo(StockEntries, MaxResp)} \cup {NonArrayBody}

\* what an unhandled promise rejection does to the process: the runtime
\* terminates it, or (warn mode) only logs it and the menu loop is gone
RejectionModes == {"crashed", "abandoned"}

VARIABLES
    pc,              \* the await the single control flow is suspended at
    exitCode,        \* process exit code, -1 while running
    LIDL_STOCK_API,  \* env: TRUE when set
    mapsConfigured,  \* env: MAPS_HOST and MAPS_API_KEY both set
    cache,           \* stores.json: [exists, content]
    productId,       \* fetchProductVariants: id matched in the URL
    variants,        \* result.variants
    fullTitle,       \* result.fullTitle
    selected,        \* productSearchFlow: the selected variant
    stores,          \* productSearchFlow: [isNull, list]
    filterPostcode,  \* productSearchFlow: last answer to the postcode prompt
    request,         \* stock request issued: [productId, storeIds]
    data,            \* findInStockStores: parsed response body
    report,          \* per-store lines printed by findInStockStores
    inStockStores,   \* findInStockStores: stores pushed as in stock
    outcome,         \* how the current menu action ended / message printed
    browser,         \* "none" | "open" | "closed"
    resolver,        \* fetchProductVariants call: idle|running|returned|threw
    dirCaller,       \* who awaits fetchLidlStores: "flow" | "menu" | "none"
    dirResult,       \* result of the last store-directory fetch
    renderCalls,     \* page.goto calls issued in the current menu action
    dirCalls,        \* store-directory fetches issued in the current action
    stockCalls       \* stock fetches issued in the current action

vars == << pc, exitCode, LIDL_STOCK_API, mapsConfigured, cache, productId,
           variants, fullTitle, selected, stores, filterPostcode, request,
           data, report, inStockStores, outcome, browser, resolver, dirCaller,
           dirResult, renderCalls, dirCalls, stockCalls >>

envVars == << LIDL_STOCK_API, mapsConfigured >>
resolverVars == << productId, variants, fullTitle, browser, resolver >>
stockVars == << request, data, report, inStockStores >>
callVars == << renderCalls, dirCalls, stockCalls >>

NoVariant == [erpNumber |-> <<>>, articleId |-> <<>>]
NullStores == [isNull |-> TRUE, list |-> <<>>]
StoreList(list) == [isNull |-> FALSE, list |-> list]
NoCache == [exists |-> FALSE, content |-> <<>>]
CacheOf(list) == [exists |-> TRUE, content |-> list]
NoRequest == [productId |-> <<>>, storeIds |-> <<>>]

\* ----------------------------------------------------------- pure helpers
Min(S) == CHOOSE x \in S : \A y \in S : x <= y

\* a string-valued JS value is falsy when undefined, null or ""
Falsy(x) == x = <<>>
Or(a, b) == IF Falsy(a) THEN b ELSE a

\* productUrl.match(/p(\d+)/)?.[1] : leftmost "p" followed by a digit, then
\* the longest run of digits; <<>> when there is no match
MatchStarts(url) ==
    {i \in 1..(Len(url) - 1) : url[i] = "p" /\ url[i + 1] \in Digits}
DigitRunEnd(s, from) ==
    CHOOSE j \in from..Len(s) :
        /\ \A k \in from..j : s[k] \in Digits
        /\ (j = Len(s) \/ s[j + 1] \notin Digits)
ExtractProductId(url) ==
    IF MatchStarts(url) = {} THEN <<>>
    ELSE LET i == Min(MatchStarts(url))
         IN SubSeq(url, i + 1, DigitRunEnd(url, i + 1))

\* parseInt(choice) on answers made of decimal digits and letters: the
\* leading run of digits read in base 10, NaN when there is none
DigitValue(c) ==
    CASE c = "0" -> 0 [] c = "1" -> 1 [] c = "2" -> 2 [] c = "3" -> 3
      [] c = "4" -> 4 [] c = "5" -> 5 [] c = "6" -> 6 [] c = "7" -> 7
      [] c = "8" -> 8 [] c = "9" -> 9
RECURSIVE DecimalValue(_)
DecimalValue(ds) ==
    IF ds = <<>> THEN 0
    ELSE 10 * DecimalValue(SubSeq(ds, 1, Len(ds) - 1)) + DigitValue(ds[Len(ds)])
ParseInt(s) ==
    IF s = <<>> \/ s[1] \notin Digits THEN [nan |-> TRUE, value |-> 0]
    ELSE [nan |-> FALSE, value |-> DecimalValue(SubSeq(s, 1, DigitRunEnd(s, 1)))]

\* result.variants[parseInt(choice) - 1] : NoVariant stands for undefined
SelectVariant(vs, choice) ==
    LET n == ParseInt(choice)
    IN IF ~n.nan /\ n.value - 1 >= 0 /\ n.value - 1 < Len(vs)
       THEN vs[n.value] ELSE NoVariant

\* the fallback object built from a field the result does not have
SyntheticVariantWrongField(id) == [erpNumber |-> <<>>, articleId |-> <<>>]

\* the object built when the product has no variants
SyntheticVariant(id) == [erpNumber |-> id, articleId |-> id]

\* selected.erpNumber || selected.articleId
QueryProductId(v) == Or(v.erpNumber, v.articleId)

\* the test without its end anchor, /^\d{4}/
IsFourDigitsNoEndAnchor(s) == Len(s) >= 4 /\ \A i \in 1..4 : s[i] \in Digits

\* /^\d{4}$/.test(s)
IsFourDigits(s) == Len(s) = 4 /\ \A i \in 1..Len(s) : s[i] \in Digits
\* the loop condition at the postcode prompt: the answer is asked again
RejectsPostcode(s) == ~Falsy(s) /\ ~IsFourDigits(s)

\* String.prototype.includes
Includes(hay, needle) ==
    \E k \in 0..(Len(hay) - Len(needle)) :
        SubSeq(hay, k + 1, k + Len(needle)) = needle

\* stores.filter(store => store.postalCode.includes(filterPostcode))
MatchesPostcode(store, code) == Includes(store.postalCode, code)
FilterByPostcode(list, code) ==
    LET Keep(store) == MatchesPostcode(store, code) IN SelectSeq(list, Keep)

\* stores.map(store => store.id)
RECURSIVE StoreIds(_)
StoreIds(list) ==
    IF list = <<>> THEN <<>> ELSE <<Head(list).id>> \o StoreIds(Tail(list))

\* loadCachedStores()
LoadCachedStores(c) == IF c.exists THEN StoreList(c.content) ELSE NullStores

\* a lookup that falls back to the first store when nothing matches
FindStoreOrFirst(list, id) ==
    LET hits == {i \in 1..Len(list) : list[i].id = id}
    IN IF hits = {} THEN (IF list = <<>> THEN 0 ELSE 1) ELSE Min(hits)

\* stores.find(s => s.id === stockInfo.storeId) : index of the first match,
\* 0 for undefined
FindStore(list, id) ==
    LET hits == {i \in 1..Len(list) : list[i].id = id}
    IN IF hits = {} THEN 0 ELSE Min(hits)

\* the switch with the UNKNOWN case falling through into LOW_STOCK's push
ClassifyUnknownPushed(status) ==
    CASE status = "AVAILABLE" -> [kind |-> "inStock", pushed |-> TRUE]
      [] status = "LOW_STOCK" -> [kind |-> "lowStock", pushed |-> TRUE]
      [] status = "UNKNOWN" -> [kind |-> "unknown", pushed |-> TRUE]
      [] OTHER -> [kind |-> "notInStock", pushed |-> FALSE]

\* the switch on storeAvailabilityIndicator: the line printed and whether
\* the store is pushed to inStockStores
Classify(status) ==
    CASE status = "AVAILABLE" -> [kind |-> "inStock", pushed |-> TRUE]
      [] status = "LOW_STOCK" -> [kind |-> "lowStock", pushed |-> TRUE]
      [] status = "UNKNOWN" -> [kind |-> "unknown", pushed |-> FALSE]
      [] OTHER -> [kind |-> "notInStock", pushed |-> FALSE]

\* the for loop of findInStockStores over the response entries
RECURSIVE StockLoop(_, _, _)
StockLoop(entries, list, acc) ==
    IF entries = <<>> THEN acc
    ELSE LET stockInfo == Head(entries)
             i == FindStore(list, stockInfo.storeId)
         IN IF i = 0 THEN StockLoop(Tail(entries), list, acc)
            ELSE LET c == Classify(stockInfo.storeAvailabilityIndicator)
                 IN StockLoop(Tail(entries), list,
                        [report |-> Append(acc.report, [kind |-> c.kind, store |-> list[i]]),
                         inStock |-> IF c.pushed THEN Append(acc.inStock, list[i])
                                     ELSE acc.inStock])

\* ------------------------------------------------------------ initial state
\* the process before line 13 has run; stores.json may be left over from an
\* earlier run
Init ==
    /\ pc = "start"
    /\ exitCode = -1
    /\ LIDL_STOCK_API \in BOOLEAN
    /\ mapsConfigured \in BOOLEAN
    /\ cache \in {NoCache} \cup {CacheOf(l) : l \in DirectoryLists}
    /\ productId = <<>>
    /\ variants = <<>>
    /\ fullTitle = ""
    /\ selected = NoVariant
    /\ stores = NullStores
    /\ filterPostcode = <<>>
    /\ request = NoRequest
    /\ data = NoBody
    /\ report = <<>>
    /\ inStockStores = <<>>
    /\ outcome = "none"
    /\ browser = "none"
    /\ resolver = "idle"
    /\ dirCaller = "none"
    /\ dirResult = "none"
    /\ renderCalls = 0
    /\ dirCalls = 0
    /\ stockCalls = 0

\* ------------------------------------------------------- shared fragments
\* process.exit(code)
ProcessExit(code) == pc' = "exited" /\ exitCode' = code

\* an exception leaves the async call chain: no caller catches it and the
\* top-level mainMenu() promise rejects unhandled, so mainMenu() at line 257
\* is never reached
UnhandledRejection(mode) ==
    /\ pc' = mode
    /\ exitCode' = IF mode = "crashed" THEN 1 ELSE exitCode

\* productSearchFlow returned; mainMenu() calls itself and prompts again
BackToMenu == pc' = "menu" /\ exitCode' = exitCode

\* fetchLidlStores up to `await fetch(url)` (lines 50-58); `issued` is the
\* number of directory fetches the current menu action has issued so far
BeginFetchLidlStores(caller, issued) ==
    IF ~mapsConfigured
    THEN /\ ProcessExit(1)
         /\ dirResult' = "missingConfig"
         /\ outcome' = "missingMapsConfig"
         /\ dirCaller' = "none"
         /\ dirCalls' = issued
    ELSE /\ pc' = "dirFetch"
         /\ dirCaller' = caller
         /\ dirCalls' = issued + 1
         /\ dirResult' = "none"
         /\ outcome' = "none"
         /\ UNCHANGED exitCode

\* findInStockStores up to `await fetch(url)` (lines 94-98, 87-88)
BeginFindInStockStores(list) ==
    /\ pc' = "stockFetch"
    /\ request' = [productId |-> QueryProductId(selected), storeIds |-> StoreIds(list)]
    /\ stockCalls' = stockCalls + 1
    /\ outcome' = "checkingStock"
    /\ UNCHANGED << exitCode, data, report, inStockStores >>

\* listStores() (lines 209-237)
ListStoresOutcome(c) ==
    IF ~c.exists \/ c.content = <<>> THEN "noCachedStores" ELSE "storesListed"

\* ------------------------------------------------------------------ actions
\* lines 13-16 and the first mainMenu() at line 260
Startup ==
    /\ pc = "start"
    /\ IF ~LIDL_STOCK_API
       THEN ProcessExit(1) /\ outcome' = "missingStockApi"
       ELSE BackToMenu /\ UNCHANGED outcome
    /\ UNCHANGED << envVars, cache, resolverVars, selected, stores,
                    filterPostcode, stockVars, dirCaller, dirResult, callVars >>

\* mainMenu (lines 240-256): one answer starts one user action; the locals
\* and the output of the action before it are gone
MainMenu(choice) ==
    /\ pc = "menu"
    /\ productId' = <<>>
    /\ variants' = <<>>
    /\ fullTitle' = ""
    /\ selected' = NoVariant
    /\ stores' = NullStores
    /\ filterPostcode' = <<>>
    /\ request' = NoRequest
    /\ data' = NoBody
    /\ report' = <<>>
    /\ inStockStores' = <<>>
    /\ resolver' = "idle"
    /\ renderCalls' = 0
    /\ stockCalls' = 0
    /\ UNCHANGED << envVars, cache, browser >>
    /\ CASE choice = "1" ->
              /\ pc' = "url"
              /\ outcome' = "none"
              /\ dirResult' = "none"
              /\ dirCaller' = "none"
              /\ dirCalls' = 0
              /\ UNCHANGED exitCode
         [] choice = "2" -> BeginFetchLidlStores("menu", 0)
         [] OTHER ->
              /\ ProcessExit(0)
              /\ outcome' = "bye"
              /\ dirResult' = "none"
              /\ dirCaller' = "none"
              /\ dirCalls' = 0

\* productSearchFlow line 155-156 and fetchProductVariants lines 132-137:
\* the URL is answered, the id matched, the browser launched, goto issued
AskUrl(url, launched) ==
    /\ pc = "url"
    /\ productId' = ExtractProductId(url)
    /\ UNCHANGED << envVars, cache, variants, fullTitle, selected, stores,
                    filterPostcode, stockVars, dirCaller, dirResult,
                    dirCalls, stockCalls >>
    /\ IF Falsy(ExtractProductId(url))
       THEN \* return null; the flow reports and returns
            /\ resolver' = "returned"
            /\ outcome' = "failedProductData"
            /\ BackToMenu
            /\ UNCHANGED << browser, renderCalls >>
       ELSE IF ~launched
       THEN \* puppeteer.launch rejects: there is no browser
            /\ resolver' = "threw"
            /\ outcome' = "launchError"
            /\ \E mode \in RejectionModes : UnhandledRejection(mode)
            /\ UNCHANGED << browser, renderCalls >>
       ELSE /\ resolver' = "running"
            /\ browser' = "open"
            /\ renderCalls' = renderCalls + 1
            /\ pc' = "goto"
            /\ UNCHANGED << exitCode, outcome >>

\* `await page.goto(...)` settles (line 137)
PageGoto(ok) ==
    /\ pc = "goto"
    /\ UNCHANGED << envVars, cache, productId, variants, fullTitle, browser,
                    selected, stores, filterPostcode, stockVars, dirCaller,
                    dirResult, callVars >>
    /\ IF ok
       THEN pc' = "evalVariants" /\ UNCHANGED << exitCode, outcome, resolver >>
       ELSE /\ resolver' = "threw"
            /\ outcome' = "navigationError"
            /\ \E mode \in RejectionModes : UnhandledRejection(mode)

\* the first page.evaluate settles (lines 139-144): the variants list, or a
\* rejection when window.__NUXT__ / its data is not there
EvaluateVariants(ok, vs) ==
    /\ pc = "evalVariants"
    /\ UNCHANGED << envVars, cache, productId, fullTitle, browser, selected,
                    stores, filterPostcode, stockVars, dirCaller, dirResult,
                    callVars >>
    /\ IF ok
       THEN /\ variants' = vs
            /\ pc' = "evalTitle"
            /\ UNCHANGED << exitCode, outcome, resolver >>
       ELSE /\ resolver' = "threw"
            /\ outcome' = "evaluateError"
            /\ \E mode \in RejectionModes : UnhandledRejection(mode)
            /\ UNCHANGED variants

\* the rest of productSearchFlow once a variant is selected, up to the
\* postcode prompt (line 184-186)
ToPostcodePrompt(v) ==
    /\ selected' = v
    /\ stores' = LoadCachedStores(cache)
    /\ pc' = "postcode"
    /\ UNCHANGED << exitCode, outcome >>

\* the second page.evaluate settles (lines 146-151), the browser is closed
\* and productSearchFlow runs on to its next prompt (lines 158-186)
EvaluateTitle(ok, title) ==
    /\ pc = "evalTitle"
    /\ UNCHANGED << envVars, cache, productId, variants, filterPostcode,
                    stockVars, dirCaller, dirResult, callVars >>
    /\ IF ~ok
       THEN /\ resolver' = "threw"
            /\ outcome' = "evaluateError"
            /\ \E mode \in RejectionModes : UnhandledRejection(mode)
            /\ UNCHANGED << fullTitle, browser, selected, stores >>
       ELSE /\ fullTitle' = title
            /\ browser' = "closed"
            /\ resolver' = "returned"
            /\ IF title = ""
               THEN /\ outcome' = "failedProductData"
                    /\ BackToMenu
                    /\ UNCHANGED << selected, stores >>
               ELSE IF Len(variants) > 0
               THEN /\ pc' = "variant"
                    /\ UNCHANGED << exitCode, outcome, selected, stores >>
               ELSE ToPostcodePrompt(SyntheticVariant(productId))

\* the variant prompt is answered (lines 171-173, 184-186)
ChooseVariant(choice) ==
    /\ pc = "variant"
    /\ UNCHANGED << envVars, cache, resolverVars, filterPostcode, stockVars,
                    dirCaller, dirResult, callVars >>
    /\ IF SelectVariant(variants, choice) = NoVariant
       THEN /\ outcome' = "invalidSelection"
            /\ BackToMenu
            /\ UNCHANGED << selected, stores >>
       ELSE ToPostcodePrompt(SelectVariant(variants, choice))

\* the postcode prompt is answered (lines 186-205): an answer the loop
\* rejects is asked again; an accepted one runs the flow on to its next
\* await, the directory fetch or the stock fetch
AskPostcode(answer) ==
    /\ pc = "postcode"
    /\ filterPostcode' = answer
    /\ UNCHANGED << envVars, cache, resolverVars, selected, renderCalls >>
    /\ IF RejectsPostcode(answer)
       THEN /\ pc' = "postcode"
            /\ outcome' = "invalidPostcode"
            /\ UNCHANGED << exitCode, stores, stockVars, dirCaller, dirResult,
                            dirCalls, stockCalls >>
       ELSE IF ~Falsy(answer) /\ stores.isNull
       THEN \* null.filter(...) throws a TypeError
            /\ outcome' = "typeError"
            /\ \E mode \in RejectionModes : UnhandledRejection(mode)
            /\ UNCHANGED << stores, stockVars, dirCaller, dirResult,
                            dirCalls, stockCalls >>
       ELSE LET active == IF Falsy(answer) THEN stores
                          ELSE StoreList(FilterByPostcode(stores.list, answer))
            IN /\ stores' = active
               /\ IF ~Falsy(answer) /\ active.list = <<>>
                  THEN /\ outcome' = "noStoresForPostcode"
                       /\ BackToMenu
                       /\ UNCHANGED << stockVars, dirCaller, dirResult,
                                       dirCalls, stockCalls >>
                  ELSE IF active.isNull
                  THEN /\ BeginFetchLidlStores("flow", dirCalls)
                       /\ UNCHANGED << stockVars, stockCalls >>
                  ELSE /\ BeginFindInStockStores(active.list)
                       /\ UNCHANGED << dirCaller, dirResult, dirCalls >>

\* the file written before the response status is looked at
CacheWrittenBeforeStatus(result, old, list) ==
    IF result \in {"ok", "httpError"} THEN CacheOf(list) ELSE old

\* stores.json after the directory fetch settled with `result`:
\* writeFileSync at line 75 runs only past the catch and the parse
CacheAfterFetch(result, old, list) ==
    IF result = "ok" THEN CacheOf(list) ELSE old

DirFetchResults == {"ok", "networkError", "httpError", "badBody"}

\* `await fetch(url)` of fetchLidlStores settles (lines 58-76), then its
\* caller runs on: mainMenu lists the stores, productSearchFlow queries stock
FetchLidlStores(result, list) ==
    /\ pc = "dirFetch"
    /\ dirResult' = result
    /\ cache' = CacheAfterFetch(result, cache, list)
    /\ UNCHANGED << envVars, resolverVars, selected, filterPostcode,
                    dirCaller, renderCalls, dirCalls >>
    /\ CASE result \in {"networkError", "httpError"} ->
              \* the catch block: console.error and process.exit(1)
              /\ ProcessExit(1)
              /\ outcome' = "failedToFetchStores"
              /\ UNCHANGED << stores, stockVars, stockCalls >>
         [] result = "badBody" ->
              \* response.json() rejects or data.d.results is not there
              /\ outcome' = "directoryBodyError"
              /\ \E mode \in RejectionModes : UnhandledRejection(mode)
              /\ UNCHANGED << stores, stockVars, stockCalls >>
         [] result = "ok" /\ dirCaller = "menu" ->
              /\ outcome' = ListStoresOutcome(CacheAfterFetch(result, cache, list))
              /\ BackToMenu
              /\ UNCHANGED << stores, stockVars, stockCalls >>
         [] result = "ok" /\ dirCaller # "menu" ->
              /\ stores' = StoreList(list)
              /\ BeginFindInStockStores(list)

StockFetchFailures == {"networkError", "httpError", "badBody"}

\* the error the rejected stock fetch carries: fetch itself rejects, line 89
\* throws on !response.ok, response.json() rejects
StockError(result) ==
    CASE result = "httpError" -> "stockHttpError"
      [] result = "networkError" -> "stockNetworkError"
      [] OTHER -> "stockBodyError"

\* a retry of the stock fetch where the code lets the error go
FetchProductAvailabilityRetries(result) ==
    /\ outcome' = StockError(result)
    /\ pc' = "stockFetch"
    /\ stockCalls' = stockCalls + 1
    /\ UNCHANGED << exitCode, data, report, inStockStores, request >>

\* fetchProductAvailability throws (lines 88-90): findInStockStores,
\* productSearchFlow and mainMenu await without a catch
FetchProductAvailabilityThrows(result) ==
    /\ outcome' = StockError(result)
    /\ \E mode \in RejectionModes : UnhandledRejection(mode)
    /\ UNCHANGED << data, report, inStockStores, request, stockCalls >>

\* the stock fetch settles with a failure (lines 88-90, 98)
StockFetchFails(result) ==
    /\ pc = "stockFetch"
    /\ result \in StockFetchFailures
    /\ FetchProductAvailabilityThrows(result)
    /\ UNCHANGED << envVars, cache, resolverVars, selected, stores,
                    filterPostcode, dirCaller, dirResult, renderCalls, dirCalls >>

\* the stock fetch settles with a parsed body (lines 98-128), the report is
\* printed and the flow returns to the menu
FindInStockStores(body) ==
    /\ pc = "stockFetch"
    /\ data' = body
    /\ BackToMenu
    /\ UNCHANGED << envVars, cache, resolverVars, selected, stores,
                    filterPostcode, request, dirCaller, dirResult, callVars >>
    /\ IF ~body.isArray \/ Len(body.entries) = 0
       THEN /\ outcome' = "noStockData"
            /\ UNCHANGED << report, inStockStores >>
       ELSE LET r == StockLoop(body.entries, stores.list,
                               [report |-> <<>>, inStock |-> <<>>])
            IN /\ report' = r.report
               /\ inStockStores' = r.inStock
               /\ outcome' = "stockReported"

\* ------------------------------------------------------------ the program
Next ==
    \/ Startup
    \/ \E choice \in MenuChoices : MainMenu(choice)
    \/ \E url \in Urls, launched \in BOOLEAN : AskUrl(url, launched)
    \/ \E ok \in BOOLEAN : PageGoto(ok)
    \/ \E ok \in BOOLEAN, vs \in VariantLists : EvaluateVariants(ok, vs)
    \/ \E ok \in BOOLEAN, title \in Titles : EvaluateTitle(ok, title)
    \/ \E choice \in ChoiceInputs : ChooseVariant(choice)
    \/ \E answer \in PostcodeInputs : AskPostcode(answer)
    \/ \E result \in DirFetchResults, list \in DirectoryLists : FetchLidlStores(result, list)
    \/ \E result \in StockFetchFailures : StockFetchFails(result)
    \/ \E body \in FlowResponses : FindInStockStores(body)

Spec == Init /\ [][Next]_vars

\* ------------------------------------------- the stock resolver on its own
\* productSearchFlow suspended at the stock fetch, for every active list
InitStock ==
    /\ pc = "stockFetch"
    /\ exitCode = -1
    /\ LIDL_STOCK_API = TRUE
    /\ mapsConfigured = TRUE
    /\ \E list \in ActiveLists :
          /\ cache = CacheOf(list)
          /\ stores = StoreList(list)
          /\ request = [productId |-> <<"1">>, storeIds |-> StoreIds(list)]
    /\ productId = <<"1">>
    /\ variants = <<>>
    /\ fullTitle = "T"
    /\ selected = SyntheticVariant(<<"1">>)
    /\ filterPostcode = <<>>
    /\ data = NoBody
    /\ report = <<>>
    /\ inStockStores = <<>>
    /\ outcome = "checkingStock"
    /\ browser = "closed"
    /\ resolver = "returned"
    /\ dirCaller = "none"
    /\ dirResult = "none"
    /\ renderCalls = 1
    /\ dirCalls = 0
    /\ stockCalls = 1

NextStock ==
    /\ pc = "stockFetch"
    /\ \E body \in StockResponses : FindInStockStores(body)

SpecStock == InitStock /\ [][NextStock]_vars

\* ---------------------------------------------------------------- claims
\* four decimal digits, as the specification words it
WellFormedPostcode(s) ==
    /\ Len(s) = 4
    /\ \A i \in 1..4 : s[i] \in {"0", "1", "2", "3", "4", "5", "6", "7", "8", "9"}

ActiveIds == {stores.list[i].id : i \in 1..Len(stores.list)}
InActiveList(entry) == entry.storeId \in ActiveIds
\* the response entries that name a store of the active list, in order
Matched == SelectSeq(data.entries, InActiveList)
CountsAsInStock(entry) ==
    entry.storeAvailabilityIndicator \in {"AVAILABLE", "LOW_STOCK"}

\* C1: once a postal code has been accepted as the filter, the flow holds an
\* actual store list (loaded or refreshed) to apply it to, and it is either
\* at the stock query or back at the menu with the "no stores for postcode"
\* report (or past the stock query).
C1_FilterAppliedToStoreList ==
    (pc # "postcode" /\ ~Falsy(filterPostcode)) =>
        /\ ~stores.isNull
        /\ \/ stockCalls = 1
           \/ pc = "menu" /\ outcome = "noStoresForPostcode"

\* C2: no finished call of fetchProductVariants, returned or thrown, leaves
\* the browser it launched open.
C2_BrowserClosedWhenResolverEnds ==
    resolver \in {"returned", "threw"} => browser # "open"

\* C3: after a non-success HTTP status of the stock query the process is
\* still running and the menu is presented again.
C3_StockFailureReturnsToMenu ==
    outcome = "stockHttpError" => (pc = "menu" /\ exitCode = -1)

\* C4: stores.json changes only in a step whose directory fetch succeeded;
\* a refresh that fails on missing configuration, a network error or a
\* non-success status ends the process with exit code 1 and leaves the
\* file as it was.
C4_CacheOnlyAfterSuccess ==
    /\ [](dirResult \in {"missingConfig", "networkError", "httpError"}
            => (pc = "exited" /\ exitCode = 1))
    /\ [][ /\ (cache' # cache => dirResult' = "ok")
           /\ (dirResult' \in {"missingConfig", "networkError", "httpError"}
                 => cache' = cache) ]_vars

C4_Witness ==
    /\ dirResult = "httpError"
    /\ pc = "exited"
    /\ cache.exists
    /\ cache.content # <<>>

\* C5: within one menu action the page render, the store-directory fetch and
\* the stock query are each issued at most once.
C5_NoRetries ==
    /\ renderCalls <= 1
    /\ dirCalls <= 1
    /\ stockCalls <= 1

C5_Witness ==
    /\ pc \in {"crashed", "abandoned"}
    /\ outcome = "stockHttpError"
    /\ renderCalls = 1
    /\ dirCalls = 1
    /\ stockCalls = 1

\* C6: a response entry whose store is not in the active list prints no
\* line and is not counted: there is one line per entry that names an active
\* store, one counted store per such entry that is AVAILABLE or LOW_STOCK,
\* and for active stores A, B, C with the response A=AVAILABLE, B=LOW_STOCK,
\* Z=AVAILABLE the in-stock stores are exactly A, B.
C6_UnknownStoresDropped ==
    outcome = "stockReported" =>
        /\ Len(report) = Len(Matched)
        /\ \A i \in 1..Len(report) : report[i].store.id = Matched[i].storeId
        /\ Len(inStockStores) = Len(SelectSeq(Matched, CountsAsInStock))
        /\ \A i \in 1..Len(inStockStores) : inStockStores[i].id \in ActiveIds
        /\ ( /\ StoreIds(stores.list) = <<"A", "B", "C">>
             /\ data.entries =
                  << [storeId |-> "A", storeAvailabilityIndicator |-> "AVAILABLE"],
                     [storeId |-> "B", storeAvailabilityIndicator |-> "LOW_STOCK"],
                     [storeId |-> "Z", storeAvailabilityIndicator |-> "AVAILABLE"] >> )
           => StoreIds(inStockStores) = <<"A", "B">>

C6_Witness ==
    /\ outcome = "stockReported"
    /\ StoreIds(stores.list) = <<"A", "B", "C">>
    /\ data.entries =
         << [storeId |-> "A", storeAvailabilityIndicator |-> "AVAILABLE"],
            [storeId |-> "B", storeAvailabilityIndicator |-> "LOW_STOCK"],
            [storeId |-> "Z", storeAvailabilityIndicator |-> "AVAILABLE"] >>
    /\ Len(report) = 2
    /\ Len(inStockStores) = 2

\* C7: the line printed for an entry of an active store and whether the
\* store is counted depend on the status string alone: AVAILABLE in stock
\* and counted, LOW_STOCK low stock and counted, UNKNOWN status unknown and
\* not counted, anything else (a missing status too) not in stock and not
\* counted.
C7_ClassificationTotal ==
    outcome = "stockReported" =>
        /\ Len(report) = Len(Matched)
        /\ \A i \in 1..Len(report) :
              LET status == Matched[i].storeAvailabilityIndicator
                  kind == report[i].kind
              IN /\ status = "AVAILABLE" => kind = "inStock"
                 /\ status = "LOW_STOCK" => kind = "lowStock"
                 /\ status = "UNKNOWN" => kind = "unknown"
                 /\ status \notin {"AVAILABLE", "LOW_STOCK", "UNKNOWN"}
                       => kind = "notInStock"
        /\ LET counted == SelectSeq(Matched, CountsAsInStock)
           IN /\ Len(inStockStores) = Len(counted)
              /\ \A i \in 1..Len(counted) : inStockStores[i].id = counted[i].storeId

C7_Witness ==
    /\ outcome = "stockReported"
    /\ Len(report) = 3
    /\ report[1].kind = "unknown"
    /\ report[2].kind = "notInStock"
    /\ report[3].kind = "lowStock"
    /\ data.entries[2].storeAvailabilityIndicator = "undefined"
    /\ Len(inStockStores) = 1

\* C8: an answer to the postcode prompt that is neither empty nor four
\* decimal digits keeps the flow at the prompt; the flow is past the prompt
\* only with an empty or a four-digit value, and an empty one leaves the
\* store list as it was loaded.
C8_PostcodePromptValidates ==
    /\ [](pc # "postcode" => (filterPostcode = <<>> \/ WellFormedPostcode(filterPostcode)))
    /\ [][ pc = "postcode" =>
             /\ (filterPostcode' # <<>> /\ ~WellFormedPostcode(filterPostcode'))
                   => (pc' = "postcode" /\ stores' = stores)
             /\ (filterPostcode' = <<>> \/ WellFormedPostcode(filterPostcode'))
                   => pc' # "postcode"
             /\ filterPostcode' = <<>> => stores' = stores ]_vars

C8_Witness ==
    /\ pc = "postcode"
    /\ outcome = "invalidPostcode"
    /\ Len(filterPostcode) = 5
    /\ \A i \in 1..5 : filterPostcode[i] = "1"

\* C9: a resolved product with a title and no variants skips the variant
\* prompt with the one synthetic variant whose identifier is the product id
\* matched in the URL, and that id is the one the stock request carries.
C9_SyntheticVariant ==
    (resolver = "returned" /\ fullTitle # "" /\ variants = <<>>) =>
        /\ productId # <<>>
        /\ pc # "variant"
        /\ outcome # "invalidSelection"
        /\ selected = [erpNumber |-> productId, articleId |-> productId]
        /\ stockCalls = 1 => request.productId = productId

C9_Witness ==
    /\ resolver = "returned"
    /\ fullTitle # ""
    /\ variants = <<>>
    /\ pc = "menu"
    /\ outcome = "stockReported"
    /\ request.productId = productId

\* C10: the in-stock count never exceeds the number of stores in the active
\* list.
C10_CountAtMostActive == Len(inStockStores) <= Len(stores.list)

====
